---- MODULE Spec2Model ----
(***************************************************************************)
(* Cycle detection core of gazzimon/metodologic.                           *)
(*                                                                         *)
(*   Spec     the BoundaryDetector class of RealTimeAnalyzer.tsx with the   *)
(*            onBoundary callback the component gives it (the cycle        *)
(*            assembler), driven by arbitrary calls of its methods.        *)
(*   SpecLive the live capture of the RealTimeAnalyzer component: the       *)
(*            detector it mounts, frame results while running or still in  *)
(*            flight, the Start, Pause and Reset buttons and the minimum    *)
(*            duration slider.                                             *)
(*   SpecSliders the HIGH and LOW sliders of the component and the effect   *)
(*            that passes their values to the detector.                    *)
(*   SpecAnyOrder the detector and assembler fed samples whose timestamps   *)
(*            need not increase.                                           *)
(*   SpecScript a fresh detector and assembler fed a fixed list of samples:  *)
(*            a repeated ramp of the metric, or the six-sample scenario.   *)
(*   SpecMetric phaseMetric of RealTimeAnalyzer.tsx applied to a landmark    *)
(*            array.                                                       *)
(*   SpecUpload, SpecUploadFair  uploadAndAnalyze of VideoUploader           *)
(*            (src/unnamed/part_002): the upload request, its progress     *)
(*            timer, and the result handed to onAnalysisComplete; the fair *)
(*            one has every request settle.                                *)
(*   SpecEC   enforceContinuity (src/src/lib/enforceContinuity.ts): the    *)
(*            batch normaliser, applied to a caller's list of cycle        *)
(*            objects and then once more to its own output.                *)
(*                                                                         *)
(* Numbers.  A JavaScript number is modelled as a record [kind, val]:      *)
(* a finite value (an integer count of units of 1e-3 s, the clamp          *)
(* epsilon of the source), +Infinity, -Infinity or NaN; "undef" stands for *)
(* undefined.  Finite arithmetic is exact, but for Math.hypot, whose       *)
(* result is rounded down to a whole number of units.                      *)
(***************************************************************************)
EXTENDS Integers, Sequences, FiniteSets

\* ---- bounds of the model ------------------------------------------------
MaxCycles == 2
MaxTime == 2
MaxLiveCycles == 2
MaxStepCycles == 1
MaxLevel == 2
MaxTSec == 2
MaxMinDur == 2
MaxFrames == 4
MaxPasses == 3
MaxCoord == 2
MaxRuns == 2

\* ---- JavaScript numbers ---------------------------------------------------
Fin(n) == [kind |-> "fin", val |-> n]
PosInf == [kind |-> "inf", val |-> 1]
NegInf == [kind |-> "inf", val |-> -1]
NaN == [kind |-> "nan", val |-> 0]
Undef == [kind |-> "undef", val |-> 0]
Null == [kind |-> "null", val |-> 0]

\* isFinite(x)
IsFinite(x) == x.kind = "fin"

\* a - b
Sub(a, b) ==
  IF a.kind = "nan" \/ b.kind = "nan" THEN NaN
  ELSE IF a.kind = "fin" /\ b.kind = "fin" THEN Fin(a.val - b.val)
  ELSE IF a.kind = "inf" /\ b.kind = "inf"
       THEN (IF a.val = b.val THEN NaN ELSE a)
  ELSE IF a.kind = "inf" THEN a
  ELSE [kind |-> "inf", val |-> 0 - b.val]

\* a + b
Add(a, b) ==
  IF a.kind = "nan" \/ b.kind = "nan" THEN NaN
  ELSE IF a.kind = "fin" /\ b.kind = "fin" THEN Fin(a.val + b.val)
  ELSE IF a.kind = "inf" /\ b.kind = "inf"
       THEN (IF a.val = b.val THEN a ELSE NaN)
  ELSE IF a.kind = "inf" THEN a
  ELSE b

\* a < 0, a <= 0, a > 0 (every comparison with NaN is false)
IsNegative(a) == a.kind \in {"fin", "inf"} /\ a.val < 0
IsNonPositive(a) == (a.kind = "fin" /\ a.val <= 0) \/ (a.kind = "inf" /\ a.val < 0)
IsPositive(a) == a.kind \in {"fin", "inf"} /\ a.val > 0

\* a === b on numbers (NaN equals nothing)
NumEq(a, b) == a.kind \in {"fin", "inf"} /\ a = b

\* a <= b
NumLeq(a, b) == NumEq(a, b) \/ IsNegative(Sub(a, b))

\* a >= b
NumGeq(a, b) == NumLeq(b, a)

\* Math.max(a, b)
MathMax(a, b) ==
  IF a.kind = "nan" \/ b.kind = "nan" THEN NaN
  ELSE IF NumGeq(a, b) THEN a ELSE b

\* the clamp epsilon 1e-3, the unit of the finite values
Epsilon == 1

\* ---- state ----------------------------------------------------------------
VARIABLES
  heap,        \* the cycle objects, by reference: heap[r] = [id, startTime, endTime, duration]
  rawCycles,   \* the caller's list given to the first call: [defined, items]
  opts,        \* the options bag of both calls: [defined, sessionStart, clampNonPositive]
  returned,    \* the list (of references) the last call returned
  ecCalls,     \* how many calls of enforceContinuity have returned
  argAtCall,   \* history: the list the last call was given
  heapAtCall,  \* history: the heap when the last call was entered
  firstOut     \* history: the cycles (by value) the first call returned

ecVars == <<heap, rawCycles, opts, returned, ecCalls, argAtCall, heapAtCall, firstOut>>

VARIABLES
  detectorRef,         \* detectorRef.current: <<>> for null, else <<d>>, d the detector's fields
  ctorThrew,           \* the constructor threw "LOW debe ser < HIGH"
  lastBoundarySecRef,  \* lastBoundarySecRef.current, the assembler's previous boundary
  cycles,              \* the cycles state of the component
  emitted,     \* history: the onBoundary calls (timestamps) of the last operation
  lastAccepted, \* history: the last boundary emitted since construction or the last
                \*          reset (Null when there is none)
  nAccepted,    \* history: the number of boundaries emitted since construction or the
                \*          last reset
  everHigh,    \* history: a step has put the detector in HIGH since construction or reset
  sawLow,      \* history: since a step last put the detector in HIGH, a step saw metric <= low
  rejected,    \* history: a rising edge was rejected since the last emitted boundary
  rejectedAt,  \* history: the timestamp of the last rejected rising edge since
               \*          construction or the last reset (Null when there is none)
  sawMid,      \* history: since a step last put the detector in HIGH, a step saw
               \*          low < metric < high
  clock,       \* the timestamp of the last sample fed (timestamps are fed in time order)
  ignoredThresholds, \* history: the last call on the detector was a setThresholds
                     \*          that returned at its guard (low >= high)
  clampedMinDuration, \* history: the last call on the detector was a setMinDuration
                      \*          with a negative argument
  startIgnored       \* history: the last operation was a handleStart that returned
                     \*          at its guard (the capture was already running)

detVars == <<detectorRef, ctorThrew, lastBoundarySecRef, cycles, emitted,
             lastAccepted, nAccepted, everHigh, sawLow, sawMid, rejected, rejectedAt, clock,
             ignoredThresholds, clampedMinDuration, startIgnored>>

VARIABLES
  running,          \* the running state of the component
  sessionStartRef,  \* sessionStartRef.current: Null, or performance.now() at the first sample
  nowMs,            \* performance.now() at the last frame (monotonic)
  inFlight          \* a Hands instance closed since has a frame result in flight to
                    \* its onResults callback, which captured running = true

liveVars == <<running, sessionStartRef, nowMs, inFlight>>

VARIABLES
  script,      \* the test a fresh detector is given: [kind, period, samples], the
               \* samples a list <<[metric, tSec], ...>>
  fed          \* how many samples of the script have been fed

scriptVars == <<script, fed>>

VARIABLES
  handLandmarks,  \* the landmark array given to phaseMetric: a function from the
                  \* indices it holds among 0 (wrist) and 8 (index fingertip) to
                  \* landmarks [x, y]; an index outside its domain reads undefined
  metricOut       \* what phaseMetric returned for it (Undef before the call)

metricVars == <<handLandmarks, metricOut>>

VARIABLES
  highState,   \* the high state of the component, shown by the HIGH slider
  lowState,    \* the low state of the component, shown by the LOW slider
  lastValid    \* history: the last (high, low) the component has shown with low < high

sliderVars == <<highState, lowState, lastValid>>

VARIABLES
  uploadedFile,      \* the uploadedFile state of VideoUploader: a file is selected
  isUploading,       \* its isUploading state
  isAnalyzing,       \* its isAnalyzing state
  analysisProgress,  \* its analysisProgress state (percent)
  request,           \* "none", or "pending": uploadAndAnalyze is at await axios.post
  runTimer,          \* the progressInterval of the run at its await is active
  orphanTimers,      \* the number of active progressIntervals of runs that have ended
  runs,              \* history: the number of uploadAndAnalyze runs started
  outcome,           \* history: how the last run ended: "none", "success", "failure"
  completeCalls,     \* history: the onAnalysisComplete calls of the last run started
  received,          \* history: the cycles of the last response, [heap, list]
  delivered          \* history: result.cycles of the last onAnalysisComplete call, by value

uploadVars == <<uploadedFile, isUploading, isAnalyzing, analysisProgress, request,
                runTimer, orphanTimers, runs, outcome, completeCalls, received, delivered>>

vars == <<ecVars, detVars, liveVars, scriptVars, metricVars, sliderVars, uploadVars>>

\* ---- BoundaryDetector and the cycle assembler --------------------------------
Levels == {Fin(n) : n \in 0..MaxLevel}
TSecs == {Fin(n) : n \in 0..MaxTSec}
MinDurs == {Fin(n) : n \in -1..MaxMinDur}

\* new BoundaryDetector(opts): the fields after a construction that does not throw
NewDetector(high, low, minDurationSec) ==
  [stateHigh |-> FALSE, lastBoundarySec |-> Null,
   minDurationSec |-> minDurationSec, high |-> high, low |-> low]

\* the constructor's test written opts.low > opts.high: equal thresholds pass
ConstructorThrowsStrict(high, low) == ~NumEq(low, high) /\ NumGeq(low, high)

\* the constructor's test: if (opts.low >= opts.high) throw
ConstructorThrows(high, low) == NumGeq(low, high)

\* setThresholds that stores the new high before it tests the pair
setThresholdsHighFirst(d, high, low) ==
  IF NumGeq(low, high) THEN [d EXCEPT !.high = high] ELSE [d EXCEPT !.high = high, !.low = low]

\* setThresholds without the test: every pair is stored
setThresholdsUnchecked(d, high, low) == [d EXCEPT !.high = high, !.low = low]

\* setThresholds(high, low)
setThresholds(d, high, low) ==
  IF NumGeq(low, high) THEN d ELSE [d EXCEPT !.high = high, !.low = low]

\* setMinDuration that stores its argument as it is
setMinDurationUnclamped(d, sec) == [d EXCEPT !.minDurationSec = sec]

\* setMinDuration(sec)
setMinDuration(d, sec) == [d EXCEPT !.minDurationSec = MathMax(Fin(0), sec)]

\* reset that leaves lastBoundarySec alone
resetKeepsLastBoundary(d) == [d EXCEPT !.stateHigh = FALSE]

\* reset that gives a detector with no minimum duration
resetNoMinDuration(d) == NewDetector(d.high, d.low, Fin(0))

\* reset()
reset(d) == [d EXCEPT !.stateHigh = FALSE, !.lastBoundarySec = Null]

\* tryBoundary with lastBoundarySec assigned before the duration test, so that
\* the debounce is measured from the last crossing, accepted or not
tryBoundaryFromLastCrossing(d, tSec) ==
  IF d.lastBoundarySec = Null
  THEN [det |-> [d EXCEPT !.lastBoundarySec = tSec], calls |-> <<tSec>>]
  ELSE [det |-> [d EXCEPT !.lastBoundarySec = tSec],
        calls |-> IF NumGeq(Sub(tSec, d.lastBoundarySec), d.minDurationSec)
                  THEN <<tSec>> ELSE <<>>]

\* tryBoundary without the duration test: every rising edge is a boundary
tryBoundaryNoDebounce(d, tSec) ==
  [det |-> [d EXCEPT !.lastBoundarySec = tSec], calls |-> <<tSec>>]

\* tryBoundary with lastBoundarySec initialised to 0 instead of null: the first
\* rising edge is debounced against the session origin
tryBoundaryFromZero(d, tSec) ==
  LET last == IF d.lastBoundarySec = Null THEN Fin(0) ELSE d.lastBoundarySec
  IN IF NumGeq(Sub(tSec, last), d.minDurationSec)
     THEN [det |-> [d EXCEPT !.lastBoundarySec = tSec], calls |-> <<tSec>>]
     ELSE [det |-> d, calls |-> <<>>]

\* tryBoundary with the duration test written dt > minDurationSec
tryBoundaryStrictlyLonger(d, tSec) ==
  IF d.lastBoundarySec = Null
  THEN [det |-> [d EXCEPT !.lastBoundarySec = tSec], calls |-> <<tSec>>]
  ELSE LET dt == Sub(tSec, d.lastBoundarySec)
       IN IF ~NumEq(dt, d.minDurationSec) /\ NumGeq(dt, d.minDurationSec)
          THEN [det |-> [d EXCEPT !.lastBoundarySec = tSec], calls |-> <<tSec>>]
          ELSE [det |-> d, calls |-> <<>>]

\* tryBoundary that measures the gap to the last boundary in either direction
tryBoundaryAbsGap(d, tSec) ==
  IF d.lastBoundarySec = Null
  THEN [det |-> [d EXCEPT !.lastBoundarySec = tSec], calls |-> <<tSec>>]
  ELSE LET dt == Sub(tSec, d.lastBoundarySec)
           gap == IF IsNegative(dt) THEN Sub(Fin(0), dt) ELSE dt
       IN IF NumGeq(gap, d.minDurationSec)
          THEN [det |-> [d EXCEPT !.lastBoundarySec = tSec], calls |-> <<tSec>>]
          ELSE [det |-> d, calls |-> <<>>]

\* tryBoundary(tSec): the detector after it, and the onBoundary calls it makes
tryBoundary(d, tSec) ==
  IF d.lastBoundarySec = Null
  THEN [det |-> [d EXCEPT !.lastBoundarySec = tSec], calls |-> <<tSec>>]
  ELSE LET dt == Sub(tSec, d.lastBoundarySec)
       IN IF NumGeq(dt, d.minDurationSec)
          THEN [det |-> [d EXCEPT !.lastBoundarySec = tSec], calls |-> <<tSec>>]
          ELSE [det |-> d, calls |-> <<>>]

\* step with a single threshold: stateHigh is not consulted
stepSingleThreshold(d, metric, tSec) ==
  IF NumGeq(metric, d.high)
  THEN LET r == tryBoundary(d, tSec)
       IN [det |-> [r.det EXCEPT !.stateHigh = TRUE], calls |-> r.calls]
  ELSE [det |-> [d EXCEPT !.stateHigh = FALSE], calls |-> <<>>]

\* step that enters HIGH only when the boundary is accepted
stepHighOnlyIfAccepted(d, metric, tSec) ==
  IF ~d.stateHigh
  THEN IF NumGeq(metric, d.high)
       THEN LET r == tryBoundary(d, tSec)
            IN [det |-> [r.det EXCEPT !.stateHigh = (r.calls # <<>>)], calls |-> r.calls]
       ELSE [det |-> d, calls |-> <<>>]
  ELSE IF NumLeq(metric, d.low)
       THEN [det |-> [d EXCEPT !.stateHigh = FALSE], calls |-> <<>>]
       ELSE [det |-> d, calls |-> <<>>]

\* step that tries a boundary on the falling edge too
stepBothEdges(d, metric, tSec) ==
  IF ~d.stateHigh
  THEN IF NumGeq(metric, d.high)
       THEN LET r == tryBoundary(d, tSec)
            IN [det |-> [r.det EXCEPT !.stateHigh = TRUE], calls |-> r.calls]
       ELSE [det |-> d, calls |-> <<>>]
  ELSE IF NumLeq(metric, d.low)
       THEN LET r == tryBoundary(d, tSec)
            IN [det |-> [r.det EXCEPT !.stateHigh = FALSE], calls |-> r.calls]
       ELSE [det |-> d, calls |-> <<>>]

\* step that leaves HIGH as soon as the metric is below high
stepRearmsBelowHigh(d, metric, tSec) ==
  IF ~d.stateHigh
  THEN IF NumGeq(metric, d.high)
       THEN LET r == tryBoundary(d, tSec)
            IN [det |-> [r.det EXCEPT !.stateHigh = TRUE], calls |-> r.calls]
       ELSE [det |-> d, calls |-> <<>>]
  ELSE IF ~NumGeq(metric, d.high)
       THEN [det |-> [d EXCEPT !.stateHigh = FALSE], calls |-> <<>>]
       ELSE [det |-> d, calls |-> <<>>]

\* step(metric, tSec): the detector after it, and the onBoundary calls it makes
step(d, metric, tSec) ==
  IF ~d.stateHigh
  THEN IF NumGeq(metric, d.high)
       THEN LET r == tryBoundary(d, tSec)
            IN [det |-> [r.det EXCEPT !.stateHigh = TRUE], calls |-> r.calls]
       ELSE [det |-> d, calls |-> <<>>]
  ELSE IF NumLeq(metric, d.low)
       THEN [det |-> [d EXCEPT !.stateHigh = FALSE], calls |-> <<>>]
       ELSE [det |-> d, calls |-> <<>>]

\* onBoundary closing a cycle at the first boundary too, from the session origin 0
onBoundaryFirstCloses(ref, cyc, tSec) ==
  LET prev == IF ref # Null THEN ref ELSE Fin(0)
  IN [ref |-> tSec,
      cycles |-> Append(cyc, [id |-> Len(cyc) + 1, startTime |-> prev, endTime |-> tSec,
                              duration |-> Sub(tSec, prev)])]

\* onBoundary that remembers only the first boundary as the previous one
onBoundaryKeepsPrev(ref, cyc, tSec) ==
  [ref |-> IF ref # Null THEN ref ELSE tSec,
   cycles |-> IF ref # Null
              THEN Append(cyc, [id |-> Len(cyc) + 1, startTime |-> ref, endTime |-> tSec,
                                duration |-> Sub(tSec, ref)])
              ELSE cyc]

\* the onBoundary callback of the component: the assembler's previous boundary
\* and the cycles list after it (cryptoUUID() is a fresh id: the cycle's position)
onBoundary(ref, cyc, tSec) ==
  [ref |-> tSec,
   cycles |-> IF ref # Null
              THEN Append(cyc, [id |-> Len(cyc) + 1, startTime |-> ref, endTime |-> tSec,
                                duration |-> Sub(tSec, ref)])
              ELSE cyc]

\* the callback applied to every call of a list, in order
RECURSIVE Deliver(_, _, _)
Deliver(ref, cyc, calls) ==
  IF calls = <<>> THEN [ref |-> ref, cycles |-> cyc]
  ELSE LET a == onBoundary(ref, cyc, calls[1])
       IN Deliver(a.ref, a.cycles, SubSeq(calls, 2, Len(calls)))

\* no detector yet, nothing assembled
InitDet ==
  /\ detectorRef = <<>>
  /\ ctorThrew = FALSE
  /\ lastBoundarySecRef = Null
  /\ cycles = <<>>
  /\ emitted = <<>>
  /\ lastAccepted = Null
  /\ nAccepted = 0
  /\ everHigh = FALSE
  /\ sawLow = FALSE
  /\ rejected = FALSE
  /\ rejectedAt = Null
  /\ sawMid = FALSE
  /\ clock = Fin(0)
  /\ ignoredThresholds = FALSE
  /\ clampedMinDuration = FALSE
  /\ startIgnored = FALSE

\* useState(0.20), useState(0.14), useState(0.35), in units of 1e-3
DefaultHigh == Fin(200)
DefaultLow == Fin(140)
DefaultMinDur == Fin(350)

\* the sliders as the first render shows them
IdleSliders ==
  /\ highState = DefaultHigh
  /\ lowState = DefaultLow
  /\ lastValid = [high |-> DefaultHigh, low |-> DefaultLow]

\* VideoUploader as first rendered: no file, no upload
IdleUpload ==
  /\ uploadedFile = FALSE
  /\ isUploading = FALSE
  /\ isAnalyzing = FALSE
  /\ analysisProgress = 0
  /\ request = "none"
  /\ runTimer = FALSE
  /\ orphanTimers = 0
  /\ runs = 0
  /\ outcome = "none"
  /\ completeCalls = 0
  /\ received = [heap |-> <<>>, list |-> <<>>]
  /\ delivered = <<>>

\* the component is not capturing
IdleLive ==
  /\ running = FALSE
  /\ sessionStartRef = Null
  /\ nowMs = Fin(0)
  /\ inFlight = FALSE

\* no scripted test
IdleScript ==
  /\ script = [kind |-> "none", period |-> 0, samples |-> <<>>]
  /\ fed = 0

\* no landmark array, no call of phaseMetric
IdleMetric ==
  /\ handLandmarks = <<>>
  /\ metricOut = Undef

\* no candidate list, no call of enforceContinuity
IdleEC ==
  /\ heap = <<>>
  /\ rawCycles = [defined |-> FALSE, items |-> <<>>]
  /\ opts = [defined |-> FALSE, sessionStart |-> Undef, clampNonPositive |-> FALSE]
  /\ returned = <<>>
  /\ ecCalls = 0
  /\ argAtCall = rawCycles
  /\ heapAtCall = <<>>
  /\ firstOut = <<>>

\* detectorRef.current = new BoundaryDetector({high, low, minDurationSec, onBoundary})
Construct(high, low, minDurationSec) ==
  /\ detectorRef = <<>>
  /\ ~ctorThrew
  /\ IF ConstructorThrows(high, low)
     THEN detectorRef' = <<>> /\ ctorThrew' = TRUE
     ELSE detectorRef' = <<NewDetector(high, low, minDurationSec)>> /\ ctorThrew' = FALSE
  /\ emitted' = <<>>
  /\ ignoredThresholds' = FALSE
  /\ clampedMinDuration' = FALSE
  /\ startIgnored' = FALSE
  /\ UNCHANGED <<lastBoundarySecRef, cycles, lastAccepted, nAccepted,
                 everHigh, sawLow, sawMid, rejected, rejectedAt, clock>>
  /\ UNCHANGED <<ecVars, liveVars, scriptVars, metricVars, sliderVars, uploadVars>>

\* what detectorRef.current.step(metric, tSec) does to the detector, to the
\* assembler and to the history
StepEffects(metric, tSec) ==
  /\ clock' = tSec
  /\ ignoredThresholds' = FALSE
  /\ clampedMinDuration' = FALSE
  /\ startIgnored' = FALSE
  /\ UNCHANGED ctorThrew
  /\ LET d == detectorRef[1]
         r == step(d, metric, tSec)
         a == Deliver(lastBoundarySecRef, cycles, r.calls)
         risingEdge == ~d.stateHigh /\ NumGeq(metric, d.high)
         enteredHigh == ~d.stateHigh /\ r.det.stateHigh
     IN /\ detectorRef' = <<r.det>>
        /\ lastBoundarySecRef' = a.ref
        /\ cycles' = a.cycles
        /\ emitted' = r.calls
        /\ lastAccepted' = IF r.calls # <<>> THEN r.calls[Len(r.calls)] ELSE lastAccepted
        /\ nAccepted' = nAccepted + Len(r.calls)
        /\ everHigh' = (everHigh \/ r.det.stateHigh)
        /\ sawLow' = IF enteredHigh THEN FALSE
                     ELSE IF NumLeq(metric, d.low) THEN TRUE ELSE sawLow
        /\ sawMid' = IF enteredHigh THEN FALSE
                     ELSE IF ~NumLeq(metric, d.low) /\ ~NumGeq(metric, d.high) THEN TRUE
                     ELSE sawMid
        /\ rejected' = IF r.calls # <<>> THEN FALSE
                       ELSE IF risingEdge THEN TRUE ELSE rejected
        /\ rejectedAt' = IF risingEdge /\ r.calls = <<>> THEN tSec ELSE rejectedAt

\* detectorRef.current?.step(metric, tSec), with tSec not before the last sample
CallStep(metric, tSec) ==
  /\ detectorRef # <<>>
  /\ Len(cycles) < MaxStepCycles
  /\ NumGeq(tSec, clock)
  /\ StepEffects(metric, tSec)
  /\ UNCHANGED <<ecVars, liveVars, scriptVars, metricVars, sliderVars, uploadVars>>

\* detectorRef.current?.step(metric, tSec), with any tSec: the caller does not
\* keep the timestamps in order
CallStepAnyOrder(metric, tSec) ==
  /\ detectorRef # <<>>
  /\ Len(cycles) < MaxStepCycles
  /\ StepEffects(metric, tSec)
  /\ UNCHANGED <<ecVars, liveVars, scriptVars, metricVars, sliderVars, uploadVars>>

\* detectorRef.current?.setThresholds(high, low)
CallSetThresholds(high, low) ==
  /\ detectorRef # <<>>
  /\ detectorRef' = <<setThresholds(detectorRef[1], high, low)>>
  /\ emitted' = <<>>
  /\ ignoredThresholds' = NumGeq(low, high)
  /\ clampedMinDuration' = FALSE
  /\ startIgnored' = FALSE
  /\ UNCHANGED <<ctorThrew, lastBoundarySecRef, cycles, lastAccepted, nAccepted,
                 everHigh, sawLow, sawMid, rejected, rejectedAt, clock>>
  /\ UNCHANGED <<ecVars, liveVars, scriptVars, metricVars, sliderVars, uploadVars>>

\* detectorRef.current?.setMinDuration(sec)
CallSetMinDuration(sec) ==
  /\ detectorRef # <<>>
  /\ detectorRef' = <<setMinDuration(detectorRef[1], sec)>>
  /\ emitted' = <<>>
  /\ ignoredThresholds' = FALSE
  /\ clampedMinDuration' = IsNegative(sec)
  /\ startIgnored' = FALSE
  /\ UNCHANGED <<ctorThrew, lastBoundarySecRef, cycles, lastAccepted, nAccepted,
                 everHigh, sawLow, sawMid, rejected, rejectedAt, clock>>
  /\ UNCHANGED <<ecVars, liveVars, scriptVars, metricVars, sliderVars, uploadVars>>

\* detectorRef.current?.reset()
CallReset ==
  /\ detectorRef # <<>>
  /\ detectorRef' = <<reset(detectorRef[1])>>
  /\ emitted' = <<>>
  /\ lastAccepted' = Null
  /\ nAccepted' = 0
  /\ everHigh' = FALSE
  /\ sawLow' = FALSE
  /\ rejected' = FALSE
  /\ rejectedAt' = Null
  /\ sawMid' = FALSE
  /\ ignoredThresholds' = FALSE
  /\ clampedMinDuration' = FALSE
  /\ startIgnored' = FALSE
  /\ UNCHANGED <<ctorThrew, lastBoundarySecRef, cycles, clock>>
  /\ UNCHANGED <<ecVars, liveVars, scriptVars, metricVars, sliderVars, uploadVars>>

Init == InitDet /\ IdleEC /\ IdleLive /\ IdleScript /\ IdleMetric /\ IdleSliders /\ IdleUpload

Next ==
  \/ \E high, low \in Levels, minDurationSec \in MinDurs :
        Construct(high, low, minDurationSec)
  \/ \E metric \in Levels, tSec \in TSecs : CallStep(metric, tSec)
  \/ \E high, low \in Levels : CallSetThresholds(high, low)
  \/ \E sec \in MinDurs : CallSetMinDuration(sec)
  \/ CallReset

Spec == Init /\ [][Next]_vars

\* ---- the live capture of the component -----------------------------------------
\* the values the sliders are moved to, the metrics of the frames and the
\* instants performance.now() of the frames (ms)
HighSlider == {Fin(50), Fin(140), Fin(200), Fin(500)}
LowSlider == {Fin(30), Fin(140), Fin(200), Fin(450)}
LiveMinDurs == {Fin(100), Fin(350)}
LiveMetrics == {Fin(100), Fin(170), Fin(250)}
FrameTimes == {Fin(200 * k) : k \in 0..MaxFrames}

\* the mount effect: detectorRef.current = new BoundaryDetector({high, low, minDur, ...})
Mount == Construct(DefaultHigh, DefaultLow, DefaultMinDur)

\* (nowMs - sessionStartRef.current) / 1000: milliseconds to seconds, a finite
\* number of seconds being written in units of 1e-3 s
TSecOf(now, start) ==
  LET ms == Sub(now, start)
  IN IF IsFinite(ms) THEN Fin(ms.val) ELSE ms

\* a handler that calls nothing on the detector and leaves the assembler alone
DetectorUntouched ==
  /\ emitted' = <<>>
  /\ ignoredThresholds' = FALSE
  /\ clampedMinDuration' = FALSE
  /\ startIgnored' = FALSE
  /\ UNCHANGED <<detectorRef, ctorThrew, lastBoundarySecRef, cycles, lastAccepted, nAccepted,
                 everHigh, sawLow, sawMid, rejected, rejectedAt, clock>>

\* the block of the onResults callback behind its test of running, for a frame
\* with a hand in it: the session origin, tSec and the step
FeedFrame(metric, now) ==
  /\ Len(cycles) < MaxLiveCycles
  /\ NumGeq(now, nowMs)
  /\ nowMs' = now
  /\ LET start == IF sessionStartRef = Null THEN now ELSE sessionStartRef
     IN /\ sessionStartRef' = start
        /\ IF detectorRef # <<>>
           THEN StepEffects(metric, TSecOf(now, start))
           ELSE DetectorUntouched
  /\ UNCHANGED <<running, ecVars, scriptVars, metricVars, sliderVars, uploadVars>>

\* hands.onResults with a hand in the frame, the callback being the one of the
\* last render: the running it captured is the running state
OnResults(metric, now) ==
  /\ running
  /\ FeedFrame(metric, now)
  /\ UNCHANGED inFlight

\* the result in flight when its Hands instance was closed reaches the
\* callback of that instance, which captured running = true
OnStaleResults(metric, now) ==
  /\ inFlight
  /\ FeedFrame(metric, now)
  /\ inFlight' = FALSE

\* the cleanup of the effect on [running, drawSkeleton] after running changed:
\* camera.stop() and hands.close(); a result in flight to the closed instance
\* may still be delivered, to a callback that captured the running of before
CloseHands == inFlight' \in (IF running THEN BOOLEAN ELSE {inFlight})

\* ClearSession that leaves the assembler's previous boundary alone
ClearSessionKeepsPrev ==
  /\ cycles' = <<>>
  /\ sessionStartRef' = Null
  /\ lastBoundarySecRef' = lastBoundarySecRef
  /\ detectorRef' = IF detectorRef = <<>> THEN <<>> ELSE <<reset(detectorRef[1])>>
  /\ emitted' = <<>>
  /\ lastAccepted' = Null
  /\ nAccepted' = 0
  /\ everHigh' = FALSE
  /\ sawLow' = FALSE
  /\ sawMid' = FALSE
  /\ rejected' = FALSE
  /\ rejectedAt' = Null
  /\ clock' = Fin(0)
  /\ ignoredThresholds' = FALSE
  /\ clampedMinDuration' = FALSE
  /\ startIgnored' = FALSE
  /\ UNCHANGED <<ctorThrew, nowMs>>

\* what handleStart and handleReset clear: the cycles, the session origin, the
\* assembler's previous boundary and the detector's state
ClearSession ==
  /\ cycles' = <<>>
  /\ sessionStartRef' = Null
  /\ lastBoundarySecRef' = Null
  /\ detectorRef' = IF detectorRef = <<>> THEN <<>> ELSE <<reset(detectorRef[1])>>
  /\ emitted' = <<>>
  /\ lastAccepted' = Null
  /\ nAccepted' = 0
  /\ everHigh' = FALSE
  /\ sawLow' = FALSE
  /\ sawMid' = FALSE
  /\ rejected' = FALSE
  /\ rejectedAt' = Null
  /\ clock' = Fin(0)
  /\ ignoredThresholds' = FALSE
  /\ clampedMinDuration' = FALSE
  /\ startIgnored' = FALSE
  /\ UNCHANGED <<ctorThrew, nowMs>>

\* handleStart without its guard: a start while running clears the session
HandleStartAlways ==
  /\ ClearSession /\ running' = TRUE /\ CloseHands
  /\ UNCHANGED <<ecVars, scriptVars, metricVars, sliderVars, uploadVars>>

\* handleStart
HandleStart ==
  /\ IF running
     THEN /\ emitted' = <<>>
          /\ ignoredThresholds' = FALSE
          /\ clampedMinDuration' = FALSE
          /\ startIgnored' = TRUE
          /\ UNCHANGED <<detectorRef, ctorThrew, lastBoundarySecRef, cycles, lastAccepted,
                         nAccepted, everHigh, sawLow, sawMid, rejected, rejectedAt, clock>>
          /\ UNCHANGED liveVars
     ELSE ClearSession /\ running' = TRUE /\ CloseHands
  /\ UNCHANGED <<ecVars, scriptVars, metricVars, sliderVars, uploadVars>>

\* handlePause that clears the session as handleReset does
HandlePauseClears ==
  /\ ClearSession
  /\ running' = FALSE
  /\ CloseHands
  /\ UNCHANGED <<ecVars, scriptVars, metricVars, sliderVars, uploadVars>>

\* handlePause
HandlePause ==
  /\ running' = FALSE
  /\ CloseHands
  /\ DetectorUntouched
  /\ UNCHANGED <<sessionStartRef, nowMs, ecVars, scriptVars, metricVars, sliderVars, uploadVars>>

\* handleReset
HandleReset ==
  /\ ClearSession
  /\ running' = FALSE
  /\ CloseHands
  /\ UNCHANGED <<ecVars, scriptVars, metricVars, sliderVars, uploadVars>>

NextLive ==
  \/ Mount
  \/ \E metric \in LiveMetrics, now \in FrameTimes : OnResults(metric, now)
  \/ \E metric \in LiveMetrics, now \in FrameTimes : OnStaleResults(metric, now)
  \/ HandleStart
  \/ HandlePause
  \/ HandleReset
  \/ \E sec \in LiveMinDurs : CallSetMinDuration(sec)

SpecLive == Init /\ [][NextLive]_vars

\* ---- the detector and the assembler of the component, fed samples in any
\* ---- order of their timestamps ---------------------------------------------
NextAnyOrder ==
  \/ \E high, low \in Levels, minDurationSec \in MinDurs :
        Construct(high, low, minDurationSec)
  \/ \E metric \in Levels, tSec \in TSecs : CallStepAnyOrder(metric, tSec)
  \/ \E sec \in MinDurs : CallSetMinDuration(sec)
  \/ HandleReset

SpecAnyOrder == Init /\ [][NextAnyOrder]_vars

\* ---- the threshold sliders of the component ---------------------------------
\* the effect on [high, low] after a render that shows (high, low):
\* detectorRef.current?.setThresholds(high, low)
ThresholdsEffect(high, low) ==
  /\ highState' = high
  /\ lowState' = low
  /\ lastValid' = IF IsNegative(Sub(low, high)) THEN [high |-> high, low |-> low]
                  ELSE lastValid
  /\ detectorRef' = IF detectorRef = <<>> THEN <<>>
                    ELSE <<setThresholds(detectorRef[1], high, low)>>
  /\ emitted' = <<>>
  /\ ignoredThresholds' = (detectorRef # <<>> /\ NumGeq(low, high))
  /\ clampedMinDuration' = FALSE
  /\ startIgnored' = FALSE
  /\ UNCHANGED <<ctorThrew, lastBoundarySecRef, cycles, lastAccepted, nAccepted,
                 everHigh, sawLow, sawMid, rejected, rejectedAt, clock>>
  /\ UNCHANGED <<ecVars, liveVars, scriptVars, metricVars, uploadVars>>

\* the component is mounted: its mount effect has run
Mounted == detectorRef # <<>> \/ ctorThrew

\* the HIGH slider is moved to v: setHigh(v), and the effect of the next render
SetHigh(v) == Mounted /\ ThresholdsEffect(v, lowState)

\* the LOW slider is moved to v: setLow(v), and the effect of the next render
SetLow(v) == Mounted /\ ThresholdsEffect(highState, v)

NextSliders ==
  \/ Mount
  \/ \E v \in HighSlider : SetHigh(v)
  \/ \E v \in LowSlider : SetLow(v)
  \/ \E sec \in LiveMinDurs : CallSetMinDuration(sec)
  \/ HandleReset

SpecSliders == Init /\ [][NextSliders]_vars

\* ---- phaseMetric ----------------------------------------------------------
\* landmark coordinates (normalised image coordinates, in units of 1e-3)
Coords == {Fin(100 * k) : k \in 0..MaxCoord}
Landmark == [x : Coords, y : Coords]

\* the landmark arrays: each of the indices 0 and 8 held or not
LandmarkArrays == UNION {[D -> Landmark] : D \in SUBSET {0, 8}}

\* handLandmarks[i]: <<>> for undefined, else <<the landmark>>
At(a, i) == IF i \in DOMAIN a THEN <<a[i]>> ELSE <<>>

\* the square root of n, rounded down
ISqrt(n) == CHOOSE r \in 0..n : r * r <= n /\ (r + 1) * (r + 1) > n

\* Math.hypot(dx, dy) for finite dx and dy
Hypot(dx, dy) == Fin(ISqrt(dx.val * dx.val + dy.val * dy.val))

\* phaseMetric measuring the horizontal distance only
phaseMetricHorizontal(a) ==
  LET wrist == At(a, 0)
      indexTip == At(a, 8)
  IN IF wrist = <<>> \/ indexTip = <<>> THEN Fin(0)
     ELSE Hypot(Sub(indexTip[1].x, wrist[1].x), Fin(0))

\* phaseMetric(handLandmarks)
phaseMetric(a) ==
  LET wrist == At(a, 0)
      indexTip == At(a, 8)
  IN IF wrist = <<>> \/ indexTip = <<>> THEN Fin(0)
     ELSE LET dx == Sub(indexTip[1].x, wrist[1].x)
              dy == Sub(indexTip[1].y, wrist[1].y)
          IN Hypot(dx, dy)

\* a landmark array, phaseMetric not yet called on it
InitMetric ==
  /\ handLandmarks \in LandmarkArrays
  /\ metricOut = Undef
  /\ InitDet /\ IdleEC /\ IdleLive /\ IdleScript /\ IdleSliders /\ IdleUpload

\* const metric = phaseMetric(hand)
Measure ==
  /\ metricOut = Undef
  /\ metricOut' = phaseMetric(handLandmarks)
  /\ UNCHANGED <<handLandmarks, ecVars, detVars, liveVars, scriptVars, sliderVars, uploadVars>>

NextMetric == Measure

SpecMetric == InitMetric /\ [][NextMetric]_vars

\* ---- a fresh detector and assembler fed a list of samples -------------------------
\* one period of the ramp of the metric from 0 up to 1 and back towards 0
\* (metrics in units of 1e-3)
RampPeriod == <<Fin(0), Fin(500), Fin(1000), Fin(500)>>

\* MaxPasses periods of the ramp, a sample every dt (in 1e-3 s), and the 0 that
\* ends the last period
Ramp(dt) ==
  [kind |-> "ramp",
   period |-> Len(RampPeriod) * dt,
   samples |-> [i \in 1..(Len(RampPeriod) * MaxPasses + 1) |->
                  [metric |-> RampPeriod[((i - 1) % Len(RampPeriod)) + 1],
                   tSec |-> Fin((i - 1) * dt)]]]

\* the scenario (0, 0.0), (0.25, 0.5), (0.10, 1.0), (0.25, 1.6), (0.05, 2.0), (0.25, 2.05)
Scenario ==
  [kind |-> "scenario",
   period |-> 0,
   samples |-> <<[metric |-> Fin(0), tSec |-> Fin(0)],
                 [metric |-> Fin(250), tSec |-> Fin(500)],
                 [metric |-> Fin(100), tSec |-> Fin(1000)],
                 [metric |-> Fin(250), tSec |-> Fin(1600)],
                 [metric |-> Fin(50), tSec |-> Fin(2000)],
                 [metric |-> Fin(250), tSec |-> Fin(2050)]>>]

\* the configuration of the scenario: high = 0.2, low = 0.15, minDurationSec = 0.5
ScenarioDetector == NewDetector(Fin(200), Fin(150), Fin(500))

Scripts == {Ramp(100), Ramp(250), Scenario}
ScriptThresholds == {Fin(-100), Fin(0), Fin(150), Fin(200), Fin(500), Fin(1000), Fin(1100)}
ScriptMinDurs == {Fin(0), Fin(400), Fin(500), Fin(1000)}

\* a detector constructed with low < high and its assembler, and the script chosen
InitScript ==
  /\ \E high, low \in ScriptThresholds, minDurationSec \in ScriptMinDurs :
       /\ ~ConstructorThrows(high, low)
       /\ detectorRef = <<NewDetector(high, low, minDurationSec)>>
  /\ script \in Scripts
  /\ fed = 0
  /\ ctorThrew = FALSE
  /\ lastBoundarySecRef = Null
  /\ cycles = <<>>
  /\ emitted = <<>>
  /\ lastAccepted = Null
  /\ nAccepted = 0
  /\ everHigh = FALSE
  /\ sawLow = FALSE
  /\ rejected = FALSE
  /\ rejectedAt = Null
  /\ sawMid = FALSE
  /\ clock = Fin(0)
  /\ ignoredThresholds = FALSE
  /\ clampedMinDuration = FALSE
  /\ startIgnored = FALSE
  /\ IdleEC /\ IdleLive /\ IdleMetric /\ IdleSliders /\ IdleUpload

\* the next sample of the script is given to step
Feed ==
  /\ fed < Len(script.samples)
  /\ StepEffects(script.samples[fed + 1].metric, script.samples[fed + 1].tSec)
  /\ fed' = fed + 1
  /\ UNCHANGED <<script, ecVars, liveVars, metricVars, sliderVars, uploadVars>>

NextScript == Feed

SpecScript == InitScript /\ [][NextScript]_vars

\* ---- enforceContinuity ------------------------------------------------------
FiniteTimes == {Fin(n) : n \in 0..MaxTime}
StartTimes == FiniteTimes \cup {PosInf}
EndTimes == FiniteTimes \cup {PosInf, NaN}

\* type Cycle; the duration as the producers of candidate lists write it, and a
\* confidence of its own for every candidate (in units of 1e-3)
Cycle(i, s, e) ==
  [id |-> i, startTime |-> s, endTime |-> e, duration |-> Sub(e, s),
   confidence |-> Fin(700 + 100 * i)]

\* opts?.sessionStart, opts?.clampNonPositive
SessionStart(o) == IF o.defined THEN o.sessionStart ELSE Undef
ClampNonPositive(o) == o.defined /\ o.clampNonPositive

\* the comparator (a, b) => a.startTime - b.startTime is negative
Before(a, b) == IsNegative(Sub(a.startTime, b.startTime))

\* the comparator is a consistent one on these cycles (no NaN startTime):
\* otherwise the order Array.prototype.sort leaves is implementation-defined
Sortable(h, list) == \A i \in 1..Len(list) : h[list[i]].startTime.kind # "nan"

\* insertion of r before the cycles of s that start when it does: ties come
\* out in reverse input order
RECURSIVE InsertBeforeTies(_, _, _)
InsertBeforeTies(h, s, r) ==
  IF s = <<>> THEN <<r>>
  ELSE IF ~Before(h[s[Len(s)]], h[r])
       THEN InsertBeforeTies(h, SubSeq(s, 1, Len(s) - 1), r) \o <<s[Len(s)]>>
       ELSE s \o <<r>>

\* stable insertion of reference r into the sorted list s
RECURSIVE Insert(_, _, _)
Insert(h, s, r) ==
  IF s = <<>> THEN <<r>>
  ELSE IF Before(h[r], h[s[Len(s)]])
       THEN Insert(h, SubSeq(s, 1, Len(s) - 1), r) \o <<s[Len(s)]>>
       ELSE s \o <<r>>

\* [...rawCycles].sort((a, b) => a.startTime - b.startTime): a new list of the
\* same references, stably sorted
RECURSIVE SortByStart(_, _)
SortByStart(h, list) ==
  IF list = <<>> THEN <<>>
  ELSE Insert(h, SortByStart(h, SubSeq(list, 1, Len(list) - 1)), list[Len(list)])

\* the override written if (opts?.sessionStart): a sessionStart of 0 is ignored
ForceSessionStartIfTruthy(h, cs, o) ==
  IF SessionStart(o).kind # "undef" /\ SessionStart(o) # Fin(0)
  THEN [h EXCEPT ![cs[1]].startTime = SessionStart(o)]
  ELSE h

\* if (opts?.sessionStart !== undefined) cycles[0].startTime = opts.sessionStart
ForceSessionStart(h, cs, o) ==
  IF SessionStart(o).kind # "undef"
  THEN [h EXCEPT ![cs[1]].startTime = SessionStart(o)]
  ELSE h

\* Stitch that only pulls a start back to the previous end: a cycle that starts
\* before the previous one ends keeps its start
RECURSIVE StitchGapsOnly(_, _, _)
StitchGapsOnly(h, cs, i) ==
  IF i > Len(cs) THEN h
  ELSE LET prevEnd == h[cs[i - 1]].endTime
       IN IF NumLeq(h[cs[i]].startTime, prevEnd)
          THEN StitchGapsOnly(h, cs, i + 1)
          ELSE StitchGapsOnly([h EXCEPT ![cs[i]].startTime = prevEnd], cs, i + 1)

\* for (i = 1; ...) cycles[i].startTime = cycles[i - 1].endTime   (i is 1-based here)
RECURSIVE Stitch(_, _, _)
Stitch(h, cs, i) ==
  IF i > Len(cs) THEN h
  ELSE Stitch([h EXCEPT ![cs[i]].startTime = h[cs[i - 1]].endTime], cs, i + 1)

\* RecomputeOne with the clamp test written c.duration < 0: a zero duration
\* is left alone
RecomputeOneStrict(h, c, o) ==
  LET d == Sub(h[c].endTime, h[c].startTime)
      h1 == [h EXCEPT ![c].duration = d]
  IN IF ClampNonPositive(o) /\ (~IsFinite(d) \/ IsNegative(d))
     THEN [h1 EXCEPT ![c].endTime = Add(h1[c].startTime, Fin(Epsilon)),
                     ![c].duration = Fin(Epsilon)]
     ELSE h1

\* RecomputeOne that clamps by moving the end of every cycle shorter than
\* epsilon or not finite, the clamp option set or not
RecomputeOneAlways(h, c, o) ==
  LET d == Sub(h[c].endTime, h[c].startTime)
      h1 == [h EXCEPT ![c].duration = d]
  IN IF ~IsFinite(d) \/ IsNonPositive(d)
     THEN [h1 EXCEPT ![c].endTime = Add(h1[c].startTime, Fin(Epsilon)),
                     ![c].duration = Fin(Epsilon)]
     ELSE h1

\* the body of for (const c of cycles): recompute the duration and clamp
RecomputeOne(h, c, o) ==
  LET d == Sub(h[c].endTime, h[c].startTime)
      h1 == [h EXCEPT ![c].duration = d]
  IN IF ClampNonPositive(o) /\ (~IsFinite(d) \/ IsNonPositive(d))
     THEN [h1 EXCEPT ![c].endTime = Add(h1[c].startTime, Fin(Epsilon)),
                     ![c].duration = Fin(Epsilon)]
     ELSE h1

RECURSIVE Recompute(_, _, _, _)
Recompute(h, cs, i, o) ==
  IF i > Len(cs) THEN h
  ELSE Recompute(RecomputeOne(h, cs[i], o), cs, i + 1, o)

\* enforceContinuity written as a filter: the cycles whose recomputed duration
\* is not positive are dropped from the returned list
EnforceContinuityFiltering(h, raw, o) ==
  IF ~raw.defined \/ Len(raw.items) = 0
  THEN [heap |-> h, ret |-> <<>>]
  ELSE LET cs == SortByStart(h, raw.items)
           h1 == ForceSessionStart(h, cs, o)
           h2 == Stitch(h1, cs, 2)
           h3 == Recompute(h2, cs, 1, [o EXCEPT !.clampNonPositive = FALSE])
           Keep(r) == IsPositive(h3[r].duration)
       IN [heap |-> h3, ret |-> SelectSeq(cs, Keep)]

\* enforceContinuity that builds new records with the fields it computes
\* (id, startTime, endTime, duration) and leaves the candidates alone
EnforceContinuityFresh(h, raw, o) ==
  IF ~raw.defined \/ Len(raw.items) = 0
  THEN [heap |-> h, ret |-> <<>>]
  ELSE LET cs == SortByStart(h, raw.items)
           h1 == ForceSessionStart(h, cs, o)
           h2 == Stitch(h1, cs, 2)
           h3 == Recompute(h2, cs, 1, o)
       IN [heap |-> [r \in DOMAIN h3 |-> [h3[r] EXCEPT !.confidence = Undef]], ret |-> cs]

\* enforceContinuity(rawCycles, opts): the heap it leaves and the list it returns
EnforceContinuity(h, raw, o) ==
  IF ~raw.defined \/ Len(raw.items) = 0
  THEN [heap |-> h, ret |-> <<>>]
  ELSE LET cs == SortByStart(h, raw.items)
           h1 == ForceSessionStart(h, cs, o)
           h2 == Stitch(h1, cs, 2)
           h3 == Recompute(h2, cs, 1, o)
       IN [heap |-> h3, ret |-> cs]

\* the cycles of a list, by value
Values(h, list) == [i \in 1..Len(list) |-> h[list[i]]]

OptsBags ==
  {[defined |-> FALSE, sessionStart |-> Undef, clampNonPositive |-> FALSE]}
  \cup [defined : {TRUE}, sessionStart : FiniteTimes \cup {Undef}, clampNonPositive : BOOLEAN]

InitEC ==
  /\ \E n \in 0..MaxCycles :
       \E s \in [1..n -> StartTimes], e \in [1..n -> EndTimes] :
         /\ heap = [i \in 1..n |-> Cycle(i, s[i], e[i])]
         /\ \/ rawCycles = [defined |-> TRUE, items |-> [i \in 1..n |-> i]]
            \/ n = 0 /\ rawCycles = [defined |-> FALSE, items |-> <<>>]
  /\ opts \in OptsBags
  /\ returned = <<>>
  /\ ecCalls = 0
  /\ argAtCall = rawCycles
  /\ heapAtCall = heap
  /\ firstOut = <<>>
  /\ InitDet /\ IdleLive /\ IdleScript /\ IdleMetric /\ IdleSliders /\ IdleUpload

\* the caller applies enforceContinuity to its candidate list
Enforce ==
  /\ ecCalls = 0
  /\ LET r == EnforceContinuity(heap, rawCycles, opts)
     IN /\ heap' = r.heap
        /\ returned' = r.ret
        /\ firstOut' = Values(r.heap, r.ret)
  /\ argAtCall' = rawCycles
  /\ heapAtCall' = heap
  /\ ecCalls' = 1
  /\ UNCHANGED <<rawCycles, opts>>

\* the caller applies enforceContinuity to the list the first call returned
EnforceAgain ==
  /\ ecCalls = 1
  /\ Sortable(heap, returned)
  /\ LET arg == [defined |-> TRUE, items |-> returned]
         r == EnforceContinuity(heap, arg, opts)
     IN /\ heap' = r.heap
        /\ returned' = r.ret
        /\ argAtCall' = arg
  /\ heapAtCall' = heap
  /\ ecCalls' = 2
  /\ UNCHANGED <<rawCycles, opts, firstOut>>

NextEC == (Enforce \/ EnforceAgain) /\ UNCHANGED <<detVars, liveVars, scriptVars, metricVars, sliderVars, uploadVars>>

SpecEC == InitEC /\ [][NextEC]_vars

\* ---- uploadAndAnalyze of VideoUploader ---------------------------------------
\* the cycle lists a response carries (payload.cycles) or generateMockCycles
\* makes: up to two cycles with finite times
UploadTimes == {Fin(0), Fin(1000)}
Payloads ==
  {[heap |-> <<>>, list |-> <<>>]}
  \cup {[heap |-> <<Cycle(1, s, e)>>, list |-> <<1>>] : s \in UploadTimes, e \in UploadTimes}
  \cup {[heap |-> <<Cycle(1, s[1], e[1]), Cycle(2, s[2], e[2])>>, list |-> <<1, 2>>] :
          s \in [1..2 -> UploadTimes], e \in [1..2 -> UploadTimes]}

\* the options uploadAndAnalyze gives enforceContinuity
UploadOpts == [defined |-> TRUE, sessionStart |-> Undef, clampNonPositive |-> TRUE]

\* fixed that leaves the clamp out of the options
FixedCyclesUnclamped(p) ==
  LET r == EnforceContinuity(p.heap, [defined |-> TRUE, items |-> p.list],
                             [defined |-> TRUE, sessionStart |-> Undef,
                              clampNonPositive |-> FALSE])
  IN Values(r.heap, r.ret)

\* const fixed = enforceContinuity(rawCycles, { clampNonPositive: true }), by value
FixedCycles(p) ==
  LET r == EnforceContinuity(p.heap, [defined |-> TRUE, items |-> p.list], UploadOpts)
  IN Values(r.heap, r.ret)

\* what the uploader does not touch
OthersUnchanged == UNCHANGED <<ecVars, detVars, liveVars, scriptVars, metricVars, sliderVars>>

\* onDrop with an accepted file
OnDrop ==
  /\ uploadedFile' = TRUE
  /\ UNCHANGED <<isUploading, isAnalyzing, analysisProgress, request, runTimer,
                 orphanTimers, runs, outcome, completeCalls, received, delivered>>
  /\ OthersUnchanged

\* removeFile (the Remover button, shown whenever a file is selected)
RemoveFile ==
  /\ uploadedFile
  /\ uploadedFile' = FALSE
  /\ analysisProgress' = 0
  /\ isAnalyzing' = FALSE
  /\ UNCHANGED <<isUploading, request, runTimer, orphanTimers, runs, outcome,
                 completeCalls, received, delivered>>
  /\ OthersUnchanged

\* uploadAndAnalyze up to await axios.post, from the Analizar button, which is
\* rendered when uploadedFile && !isAnalyzing and disabled when isUploading
StartUpload ==
  /\ uploadedFile /\ ~isAnalyzing /\ ~isUploading
  /\ runs < MaxRuns
  /\ isUploading' = TRUE
  /\ isAnalyzing' = TRUE
  /\ analysisProgress' = 0
  /\ runTimer' = TRUE
  /\ request' = "pending"
  /\ runs' = runs + 1
  /\ outcome' = "none"
  /\ completeCalls' = 0
  /\ UNCHANGED <<uploadedFile, orphanTimers, received, delivered>>
  /\ OthersUnchanged

\* a tick of the run's progressInterval
TickRun ==
  /\ runTimer
  /\ IF analysisProgress >= 90
     THEN runTimer' = FALSE /\ analysisProgress' = 90
     ELSE runTimer' = TRUE /\ analysisProgress' = analysisProgress + 10
  /\ UNCHANGED <<uploadedFile, isUploading, isAnalyzing, request, orphanTimers, runs,
                 outcome, completeCalls, received, delivered>>
  /\ OthersUnchanged

\* a tick of a progressInterval left active by a run that has ended
TickOrphan ==
  /\ orphanTimers > 0
  /\ IF analysisProgress >= 90
     THEN orphanTimers' = orphanTimers - 1 /\ analysisProgress' = 90
     ELSE orphanTimers' = orphanTimers /\ analysisProgress' = analysisProgress + 10
  /\ UNCHANGED <<uploadedFile, isUploading, isAnalyzing, request, runTimer, runs,
                 outcome, completeCalls, received, delivered>>
  /\ OthersUnchanged

\* the request resolves: the rest of the try block, then finally
Resolve(p) ==
  /\ request = "pending"
  /\ runTimer' = FALSE
  /\ received' = p
  /\ delivered' = FixedCycles(p)
  /\ completeCalls' = completeCalls + 1
  /\ isAnalyzing' = FALSE
  /\ analysisProgress' = 0
  /\ isUploading' = FALSE
  /\ request' = "none"
  /\ outcome' = "success"
  /\ UNCHANGED <<uploadedFile, orphanTimers, runs>>
  /\ OthersUnchanged

\* the request rejects: the catch block, then finally
Reject ==
  /\ request = "pending"
  /\ isAnalyzing' = FALSE
  /\ analysisProgress' = 0
  /\ isUploading' = FALSE
  /\ request' = "none"
  /\ outcome' = "failure"
  /\ runTimer' = FALSE
  /\ orphanTimers' = IF runTimer THEN orphanTimers + 1 ELSE orphanTimers
  /\ UNCHANGED <<uploadedFile, runs, completeCalls, received, delivered>>
  /\ OthersUnchanged

\* the request settles
Settle == (\E p \in Payloads : Resolve(p)) \/ Reject

NextUpload ==
  \/ OnDrop
  \/ RemoveFile
  \/ StartUpload
  \/ TickRun
  \/ TickOrphan
  \/ \E p \in Payloads : Resolve(p)
  \/ Reject

SpecUpload == Init /\ [][NextUpload]_vars

\* every request settles
SpecUploadFair == SpecUpload /\ WF_vars(Settle)

\* ---- claims about BoundaryDetector (checked under Spec) --------------------
\* the sample (metric, tSec) is a rising edge for the detector: LOW and metric >= high
RisingEdge(metric) ==
  /\ detectorRef # <<>>
  /\ ~detectorRef[1].stateHigh /\ NumGeq(metric, detectorRef[1].high)

\* C7: once a step has put the detector in HIGH (and until a reset), a step
\* emits a boundary only if some step since then has seen metric <= low and
\* this step sees metric >= high; a step whose metric is strictly between low
\* and high emits nothing.
C7_DeadBand ==
  [][\A metric \in Levels : LET tSec == clock' IN
       (emitted' # <<>> /\ CallStep(metric, tSec)) =>
         /\ everHigh => (sawLow /\ NumGeq(metric, detectorRef[1].high))
         /\ ~(/\ ~NumLeq(metric, detectorRef[1].low)
              /\ ~NumGeq(metric, detectorRef[1].high))
    ]_vars

\* the detector is in HIGH after its first boundary and has since been fed
\* metrics strictly between low and high, none <= low: nothing more was emitted
C7_Witness ==
  /\ detectorRef # <<>>
  /\ detectorRef[1].stateHigh /\ everHigh
  /\ sawMid /\ ~sawLow
  /\ emitted = <<>> /\ nAccepted = 1 /\ cycles = <<>>

\* C8: after a rising edge was rejected (t2 - t1 < minDurationSec, t1 the last
\* accepted boundary), a later rising edge at t3 is accepted exactly when
\* t3 - t1 >= minDurationSec, whatever t3 - t2 is.
C8_DebounceFromLastAccepted ==
  [][\A metric \in Levels : LET tSec == clock' IN
       (RisingEdge(metric) /\ rejected /\ lastAccepted # Null /\ CallStep(metric, tSec)) =>
         /\ emitted' \in {<<>>, <<tSec>>}
         /\ emitted' # <<>> <=>
              NumGeq(Sub(tSec, lastAccepted), detectorRef[1].minDurationSec)
    ]_vars

\* the second boundary was accepted at t3 = clock after a rising edge was
\* rejected at t2, with t3 - t2 < minDurationSec
C8_Witness ==
  /\ detectorRef # <<>>
  /\ emitted = <<clock>>
  /\ nAccepted = 2
  /\ rejectedAt # Null
  /\ IsNegative(Sub(Sub(clock, rejectedAt), detectorRef[1].minDurationSec))

\* C9: a step in LOW with metric >= high, a boundary recorded and
\* t - lastBoundarySec < minDurationSec emits no boundary, leaves
\* lastBoundarySec unchanged and still moves the detector to HIGH.
C9_RejectedStep ==
  [][\A metric \in Levels : LET tSec == clock' IN
       (/\ RisingEdge(metric)
        /\ detectorRef[1].lastBoundarySec # Null
        /\ IsNegative(Sub(Sub(tSec, detectorRef[1].lastBoundarySec),
                          detectorRef[1].minDurationSec))
        /\ CallStep(metric, tSec))
       => /\ emitted' = <<>>
          /\ detectorRef'[1].lastBoundarySec = detectorRef[1].lastBoundarySec
          /\ detectorRef'[1].stateHigh
          /\ lastBoundarySecRef' = lastBoundarySecRef /\ cycles' = cycles
    ]_vars

\* a rising edge was rejected at the current timestamp: the detector is in
\* HIGH and still holds the boundary accepted before
C9_Witness ==
  /\ detectorRef # <<>>
  /\ rejected /\ rejectedAt = clock
  /\ emitted = <<>>
  /\ detectorRef[1].stateHigh /\ ~sawLow /\ ~sawMid
  /\ lastAccepted # Null /\ detectorRef[1].lastBoundarySec = lastAccepted

\* C10: two consecutively accepted boundaries t_a, t_b satisfy
\* t_b - t_a >= the minDurationSec in effect at the step that accepted t_b,
\* and that step appends the cycle [t_a, t_b], whose duration is >= that
\* minDurationSec.
C10_MinDuration ==
  [][\A metric \in Levels : LET tSec == clock' IN
       (emitted' # <<>> /\ lastAccepted # Null /\ CallStep(metric, tSec)) =>
         /\ NumGeq(Sub(lastAccepted', lastAccepted), detectorRef[1].minDurationSec)
         /\ Len(cycles') = Len(cycles) + 1
         /\ cycles'[Len(cycles')].startTime = lastAccepted
         /\ cycles'[Len(cycles')].endTime = lastAccepted'
         /\ NumGeq(cycles'[Len(cycles')].duration, detectorRef[1].minDurationSec)
    ]_vars

\* a cycle was just assembled, exactly minDurationSec > 0 long, after a rising
\* edge in between was rejected
C10_Witness ==
  /\ detectorRef # <<>>
  /\ emitted = <<clock>> /\ nAccepted = 2
  /\ Len(cycles) = 1
  /\ rejectedAt # Null
  /\ IsPositive(detectorRef[1].minDurationSec)
  /\ cycles[1].duration = detectorRef[1].minDurationSec

Samples == [metric : Levels, tSec : TSecs]

\* C13: after any history of calls, a detector on which reset() is called is
\* the detector a construction with its current thresholds and minDuration
\* gives: the construction succeeds, the two detectors have the same fields,
\* and any next sample makes both emit the same boundaries and leaves them
\* equal again, so that they emit the same boundaries for every following
\* sequence of samples.
C13_ResetIsFresh ==
  [][(detectorRef # <<>> /\ nAccepted' = 0 /\ CallReset) =>
       LET d == detectorRef[1]
           fresh == NewDetector(d.high, d.low, d.minDurationSec)
       IN /\ ~ConstructorThrows(d.high, d.low)
          /\ detectorRef'[1] = fresh
          /\ \A s \in Samples :
               step(detectorRef'[1], s.metric, s.tSec) = step(fresh, s.metric, s.tSec)
    ]_vars

\* after a boundary and then a reset, the first rising edge was accepted as by
\* a fresh detector, although it is closer than minDurationSec to the boundary
\* accepted before the reset
C13_Witness ==
  /\ detectorRef # <<>>
  /\ nAccepted = 1 /\ emitted = <<clock>>
  /\ Len(cycles) = 1
  /\ IsNegative(Sub(cycles[1].duration, detectorRef[1].minDurationSec))

\* C14: constructing a BoundaryDetector with low >= high (low = high included)
\* throws and leaves no detector; with low < high it succeeds and the detector
\* starts in LOW with no last boundary and the options it was given.
C14_Constructor ==
  [][\A high, low \in Levels, minDurationSec \in MinDurs :
       (detectorRef = <<>> /\ Construct(high, low, minDurationSec)) =>
         /\ NumGeq(low, high) => (ctorThrew' /\ detectorRef' = <<>>)
         /\ ~NumGeq(low, high) =>
              /\ ~ctorThrew'
              /\ detectorRef' = <<[stateHigh |-> FALSE, lastBoundarySec |-> Null,
                                   minDurationSec |-> minDurationSec,
                                   high |-> high, low |-> low]>>
    ]_vars

\* a construction threw: there is no detector, and nothing was emitted or assembled
C14_Witness ==
  /\ ctorThrew
  /\ detectorRef = <<>>
  /\ emitted = <<>> /\ cycles = <<>> /\ nAccepted = 0

\* the pairs with low < high
ValidThresholds == {p \in [high : Levels, low : Levels] : ~NumGeq(p.low, p.high)}

\* C15: setThresholds(high, low) with low >= high changes nothing in the
\* detector (high, low, minDurationSec, stateHigh, lastBoundarySec) and emits
\* nothing; with low < high it replaces high and low and leaves stateHigh,
\* lastBoundarySec and minDurationSec unchanged.
C15_SetThresholds ==
  [][/\ (detectorRef # <<>> /\ ignoredThresholds') =>
          /\ detectorRef' = detectorRef
          /\ emitted' = <<>> /\ cycles' = cycles /\ lastBoundarySecRef' = lastBoundarySecRef
     /\ (~ignoredThresholds' /\ emitted' = <<>> /\ detectorRef # <<>>) =>
          \A p \in ValidThresholds :
            CallSetThresholds(p.high, p.low) =>
              /\ detectorRef'[1] = [detectorRef[1] EXCEPT !.high = p.high, !.low = p.low]
              /\ cycles' = cycles /\ lastBoundarySecRef' = lastBoundarySecRef
    ]_vars

\* a setThresholds with low >= high was just ignored by a detector that is in
\* HIGH and holds a boundary
C15_Witness ==
  /\ detectorRef # <<>>
  /\ ignoredThresholds
  /\ detectorRef[1].stateHigh
  /\ detectorRef[1].lastBoundarySec # Null
  /\ IsNegative(Sub(detectorRef[1].low, detectorRef[1].high))

\* C16: the thresholds a constructed detector stores satisfy low < high, after
\* any sequence of step, setThresholds, setMinDuration and reset calls.
C16_LowBelowHigh ==
  detectorRef # <<>> =>
    IsNegative(Sub(detectorRef[1].low, detectorRef[1].high))

\* a setThresholds with low >= high was just ignored by a detector that has
\* been reset after it accepted boundaries
C16_Witness ==
  /\ detectorRef # <<>>
  /\ ignoredThresholds
  /\ nAccepted = 0 /\ lastBoundarySecRef # Null
  /\ IsNegative(Sub(detectorRef[1].low, detectorRef[1].high))

\* C17: a step emits at most one boundary; it emits one only when it moves the
\* detector from LOW to HIGH, and then with its own timestamp; a step that
\* moves the detector from HIGH to LOW emits nothing and leaves lastBoundarySec
\* unchanged.
C17_OneBoundaryOnRisingEdge ==
  [][\A metric \in Levels : LET tSec == clock' IN
       (/\ detectorRef # <<>> /\ detectorRef' # <<>>
        /\ emitted' # <<>> \/ (detectorRef[1].stateHigh /\ ~detectorRef'[1].stateHigh)
        /\ CallStep(metric, tSec)) =>
         /\ Len(emitted') <= 1
         /\ emitted' # <<>> =>
              /\ ~detectorRef[1].stateHigh /\ detectorRef'[1].stateHigh
              /\ emitted' = <<tSec>>
         /\ (detectorRef[1].stateHigh /\ ~detectorRef'[1].stateHigh) =>
              /\ NumLeq(metric, detectorRef[1].low)
              /\ emitted' = <<>>
              /\ detectorRef'[1].lastBoundarySec = detectorRef[1].lastBoundarySec
    ]_vars

\* the detector fell from HIGH to LOW long enough after its boundary for a
\* boundary to be accepted, and emitted nothing
C17_Witness ==
  /\ detectorRef # <<>>
  /\ ~detectorRef[1].stateHigh /\ everHigh /\ sawLow
  /\ emitted = <<>> /\ ~ignoredThresholds
  /\ nAccepted = 1 /\ detectorRef[1].lastBoundarySec = lastAccepted
  /\ IsPositive(detectorRef[1].minDurationSec)
  /\ NumGeq(Sub(clock, lastAccepted), detectorRef[1].minDurationSec)

\* C18: with no boundary recorded since construction or the last reset, a step
\* in LOW with metric >= high emits a boundary at its timestamp and records it
\* as lastBoundarySec, whatever minDurationSec and the timestamp are.
C18_FirstBoundaryUnconditional ==
  [][\A metric \in Levels : LET tSec == clock' IN
       (/\ RisingEdge(metric)
        /\ detectorRef[1].lastBoundarySec = Null
        /\ CallStep(metric, tSec))
       => /\ emitted' = <<tSec>>
          /\ detectorRef'[1].lastBoundarySec = tSec
          /\ detectorRef'[1].stateHigh
    ]_vars

\* the first boundary was accepted at a timestamp smaller than minDurationSec
C18_Witness ==
  /\ detectorRef # <<>>
  /\ nAccepted = 1 /\ emitted = <<clock>>
  /\ cycles = <<>> /\ lastBoundarySecRef = clock
  /\ IsNegative(Sub(clock, detectorRef[1].minDurationSec))

\* ---- claims about scripted runs (checked under SpecScript) --------------------
\* the ramp is being fed at a period T >= minDurationSec >= 0
RampAtPeriod ==
  /\ script.kind = "ramp"
  /\ NumGeq(detectorRef[1].minDurationSec, Fin(0))
  /\ NumGeq(Fin(script.period), detectorRef[1].minDurationSec)

\* the passes of the ramp fed completely
PassesDone == fed \div Len(RampPeriod)

\* one accepted boundary per pass fed, each pass after the first closing a cycle
OneBoundaryPerPass ==
  /\ nAccepted <= PassesDone + 1
  /\ (fed % Len(RampPeriod) = 0) =>
       /\ nAccepted = PassesDone
       /\ Len(cycles) = (IF PassesDone = 0 THEN 0 ELSE PassesDone - 1)
  /\ \A k \in 1..Len(cycles) : cycles[k].duration = Fin(script.period)

\* C19 (as claimed): for every configuration with low < high and
\* minDurationSec >= 0, the ramp from 0 up to 1 and back to 0, repeated at a
\* period T >= minDurationSec, gives exactly one accepted boundary per ramp-up
\* pass, each pass after the first closing exactly one cycle.
C19_OneBoundaryPerRampUp ==
  RampAtPeriod => OneBoundaryPerPass

\* C19 (amended): the same, for the configurations whose thresholds the ramp
\* reaches: 0 <= low < high <= 1.
C19_OneBoundaryPerRampUpInRange ==
  (/\ RampAtPeriod
   /\ NumGeq(detectorRef[1].low, Fin(0))
   /\ NumLeq(detectorRef[1].high, RampPeriod[3]))
  => OneBoundaryPerPass

\* every pass of a ramp whose period is exactly minDurationSec > 0 has been
\* fed, with thresholds at the two ends of the ramp: one boundary per pass
C19_Witness ==
  /\ script.kind = "ramp"
  /\ fed = Len(script.samples)
  /\ detectorRef[1].minDurationSec = Fin(script.period)
  /\ detectorRef[1].low = Fin(0) /\ detectorRef[1].high = RampPeriod[3]
  /\ nAccepted = MaxPasses
  /\ Len(cycles) = MaxPasses - 1

\* C20: with high = 0.2, low = 0.15 and minDurationSec = 0.5 the six samples of
\* the scenario give boundaries exactly at t = 0.5 and t = 1.6; the crossing at
\* t = 2.05 is rejected; in the end there is one cycle, start 0.5, end 1.6,
\* duration 1.1, and the detector is in HIGH with lastBoundarySec = 1.6.
C20_Scenario ==
  (/\ script = Scenario
   /\ [detectorRef[1] EXCEPT !.stateHigh = FALSE, !.lastBoundarySec = Null] = ScenarioDetector)
  => /\ emitted = (IF fed = 2 THEN <<Fin(500)>> ELSE IF fed = 4 THEN <<Fin(1600)>> ELSE <<>>)
     /\ nAccepted = (IF fed < 2 THEN 0 ELSE IF fed < 4 THEN 1 ELSE 2)
     /\ fed = 6 =>
          /\ rejected /\ rejectedAt = Fin(2050)
          /\ Len(cycles) = 1
          /\ cycles[1].startTime = Fin(500)
          /\ cycles[1].endTime = Fin(1600)
          /\ cycles[1].duration = Fin(1100)
          /\ detectorRef[1].stateHigh
          /\ detectorRef[1].lastBoundarySec = Fin(1600)
          /\ lastBoundarySecRef = Fin(1600)

\* the six samples of the scenario have been fed to the scenario's detector
C20_Witness ==
  /\ script = Scenario
  /\ fed = 6
  /\ detectorRef[1].high = Fin(200) /\ detectorRef[1].low = Fin(150)
  /\ detectorRef[1].minDurationSec = Fin(500)
  /\ Len(cycles) = 1

\* ---- claims about the live capture (checked under SpecLive) -----------------
\* C11: in a live session (from one start or reset until the next) the cycles
\* list has max(0, N - 1) cycles, N the number of boundaries the detector
\* accepted in the session; the first accepted boundary produces no cycle.
C11_CyclesAreBoundariesMinusOne ==
  Len(cycles) = (IF nAccepted = 0 THEN 0 ELSE nAccepted - 1)

\* a running session, not the first one of the component, has accepted three
\* boundaries and holds two cycles
C11_Witness ==
  /\ running /\ sessionStartRef # Null /\ sessionStartRef # Fin(0)
  /\ nAccepted = 3 /\ Len(cycles) = 2

\* C12: in a live session the cycles list is contiguous: cycles[k].startTime
\* equals cycles[k-1].endTime, every duration is endTime - startTime, and a
\* step that accepts a boundary after another appends the cycle from the
\* previously accepted boundary to the boundary it accepts.
C12_LiveContiguous ==
  /\ [](/\ \A k \in 2..Len(cycles) : cycles[k].startTime = cycles[k - 1].endTime
        /\ \A k \in 1..Len(cycles) :
             cycles[k].duration = Sub(cycles[k].endTime, cycles[k].startTime)
        /\ cycles # <<>> => cycles[Len(cycles)].endTime = lastAccepted)
  /\ [][(emitted' # <<>> /\ lastAccepted # Null) =>
          /\ Len(cycles') = Len(cycles) + 1
          /\ cycles'[Len(cycles')].startTime = lastAccepted
          /\ cycles'[Len(cycles')].endTime = lastAccepted'
          /\ SubSeq(cycles', 1, Len(cycles)) = cycles
       ]_vars

\* a session holds two cycles of different durations, the second starting where
\* the first ends, after a rising edge was rejected in between or before
C12_Witness ==
  /\ running
  /\ Len(cycles) = 2
  /\ cycles[2].startTime = cycles[1].endTime
  /\ cycles[1].duration # cycles[2].duration
  /\ emitted = <<cycles[2].endTime>>

\* ---- claims about enforceContinuity (checked under SpecEC) ----------------
\* the i-th cycle of the returned list
Out(i) == heap[returned[i]]

\* every startTime and endTime the first call was given is finite
FiniteInput ==
  \A r \in DOMAIN heapAtCall :
    IsFinite(heapAtCall[r].startTime) /\ IsFinite(heapAtCall[r].endTime)

\* the first call has returned and clampNonPositive was set
ClampedCallDone == ecCalls = 1 /\ ClampNonPositive(opts)

\* cycle i of the returned list was clamped by the last call
WasClamped(i) ==
  /\ Out(i).duration = Fin(Epsilon)
  /\ Out(i).endTime = Add(Out(i).startTime, Fin(Epsilon))
  /\ Out(i).endTime # heapAtCall[returned[i]].endTime

\* C1: with clampNonPositive set, for every non-empty list of candidates with
\* finite start and end times, output[i].startTime equals output[i-1].endTime
\* for every i >= 1.
C1_Contiguous ==
  (ClampedCallDone /\ FiniteInput) =>
    \A i \in 2..Len(returned) : NumEq(Out(i).startTime, Out(i - 1).endTime)

\* C2 (as claimed): with clampNonPositive set, every returned cycle has
\* duration > 0 and duration equal to endTime - startTime.
C2_DurationIsEndMinusStart ==
  ClampedCallDone =>
    \A i \in 1..Len(returned) :
      /\ IsPositive(Out(i).duration)
      /\ NumEq(Out(i).duration, Sub(Out(i).endTime, Out(i).startTime))

\* C2 (amended): with clampNonPositive set, every returned cycle has a finite
\* duration > 0, which is endTime - startTime, or else the cycle was clamped:
\* its duration is epsilon and its endTime is startTime + epsilon.
C2_PositiveDuration ==
  ClampedCallDone =>
    \A i \in 1..Len(returned) :
      /\ IsPositive(Out(i).duration) /\ IsFinite(Out(i).duration)
      /\ \/ NumEq(Out(i).duration, Sub(Out(i).endTime, Out(i).startTime))
         \/ /\ Out(i).duration = Fin(Epsilon)
            /\ Out(i).endTime = Add(Out(i).startTime, Fin(Epsilon))

\* a call with clampNonPositive returned a clamped cycle of zero input length
\* next to one that was left alone
C2_Witness ==
  /\ ClampedCallDone
  /\ \E i, j \in 1..Len(returned) :
       /\ WasClamped(i)
       /\ Sub(heapAtCall[returned[i]].endTime, Out(i).startTime) = Fin(0)
       /\ ~WasClamped(j) /\ Out(j).endTime = heapAtCall[returned[j]].endTime

\* C3: with clampNonPositive set the returned list is sorted by startTime:
\* output[i-1].startTime <= output[i].startTime for every i >= 1.
C3_SortedByStart ==
  (ClampedCallDone /\ FiniteInput) =>
    \A i \in 2..Len(returned) : NumLeq(Out(i - 1).startTime, Out(i).startTime)

\* C4: applying enforceContinuity to its own output, with the same options,
\* returns a list identical to that output: the same order, and the same
\* startTime, endTime and duration for every cycle.  Stated for the options
\* that set clampNonPositive, under which the output invariants are promised,
\* and for outputs whose times are all finite.
C4_Idempotent ==
  (/\ ecCalls = 2
   /\ ClampNonPositive(opts)
   /\ \A i \in 1..Len(firstOut) :
        IsFinite(firstOut[i].startTime) /\ IsFinite(firstOut[i].endTime))
  => Values(heap, returned) = firstOut

\* C5: after a call the caller's list and every cycle record in it are as
\* they were before the call.
C5_InputUnchanged ==
  ecCalls = 1 =>
    /\ rawCycles = argAtCall
    /\ \A r \in DOMAIN heapAtCall : heap[r] = heapAtCall[r]

\* how often the id x occurs among the cycles of a list
Occurrences(h, list, x) == Cardinality({i \in 1..Len(list) : h[list[i]].id = x})

\* C6: the returned list has the length of the input and exactly its cycle
\* ids, whatever the options; an empty or missing input returns the empty list.
C6_SameCycles ==
  ecCalls >= 1 =>
    /\ Len(returned) = Len(argAtCall.items)
    /\ \A r \in DOMAIN heapAtCall :
         Occurrences(heap, returned, heapAtCall[r].id)
           = Occurrences(heapAtCall, argAtCall.items, heapAtCall[r].id)
    /\ (~argAtCall.defined \/ argAtCall.items = <<>>) => returned = <<>>

\* a call reordered a list of several cycles and clamped one of them
C6_Witness ==
  /\ ecCalls = 1
  /\ Len(returned) >= 2
  /\ returned # argAtCall.items
  /\ \E i \in 1..Len(returned) : WasClamped(i)

\* the list and the cycles the last call was given
In(r) == heapAtCall[r]
PosIn(r) == CHOOSE k \in 1..Len(argAtCall.items) : argAtCall.items[k] = r

\* C21: the returned list holds the candidates in ascending order of the
\* startTime they had in the input, and two candidates with equal startTime
\* keep the relative order they had in the input.
C21_StableSort ==
  ecCalls >= 1 =>
    \A i, j \in 1..Len(returned) :
      i < j =>
        /\ ~Before(In(returned[j]), In(returned[i]))
        /\ ~Before(In(returned[i]), In(returned[j])) => PosIn(returned[i]) < PosIn(returned[j])

\* a call returned two candidates that started at the same time and end at
\* different times, in their input order
C21_Witness ==
  /\ ecCalls = 1
  /\ Len(returned) = 2
  /\ In(returned[1]).startTime = In(returned[2]).startTime
  /\ In(returned[1]).endTime # In(returned[2]).endTime
  /\ PosIn(returned[1]) < PosIn(returned[2])

\* the smallest startTime of the input of the last call
MinStartIn ==
  CHOOSE m \in {In(r).startTime : r \in DOMAIN heapAtCall} :
    \A r \in DOMAIN heapAtCall : NumLeq(m, In(r).startTime)

\* C22: for a non-empty input the first returned cycle starts at sessionStart
\* when it is supplied, and at the smallest startTime of the input when it is not.
C22_FirstStart ==
  (ecCalls = 1 /\ returned # <<>>) =>
    IF SessionStart(opts).kind # "undef"
    THEN NumEq(Out(1).startTime, SessionStart(opts))
    ELSE NumEq(Out(1).startTime, MinStartIn)

\* a call with sessionStart 0 returned a list whose first cycle starts at 0,
\* none of the candidates having started there
C22_Witness ==
  /\ ecCalls = 1
  /\ Len(returned) >= 2
  /\ SessionStart(opts) = Fin(0)
  /\ Out(1).startTime = Fin(0)
  /\ \A r \in DOMAIN heapAtCall : In(r).startTime # Fin(0)

\* the duration the last call recomputed for cycle i of the returned list:
\* the endTime it was given minus the startTime after stitching
Recomputed(i) == Sub(In(returned[i]).endTime, Out(i).startTime)

\* cycle i keeps the endTime, id and confidence of its candidate, its duration
\* being the recomputed one
KeepsCandidate(i) ==
  /\ Out(i).endTime = In(returned[i]).endTime
  /\ Out(i).id = In(returned[i]).id
  /\ Out(i).confidence = In(returned[i]).confidence
  /\ Out(i).duration = Recomputed(i)

\* the returned list is in ascending order of the candidates' startTime
AscendingByInputStart ==
  \A i, j \in 1..Len(returned) : i < j => ~Before(In(returned[j]), In(returned[i]))

\* the example of the claim: [{start:5,end:10},{start:0,end:4}] with
\* sessionStart 0 and clampNonPositive (times in seconds)
ExampleHeap == <<Cycle(1, Fin(5), Fin(10)), Cycle(2, Fin(0), Fin(4))>>
ExampleResult ==
  EnforceContinuity(ExampleHeap, [defined |-> TRUE, items |-> <<1, 2>>],
                    [defined |-> TRUE, sessionStart |-> Fin(0), clampNonPositive |-> TRUE])

\* C23 (as claimed): when no recomputed duration is non-positive, output cycle i
\* keeps the endTime, id and confidence of the candidate with the i-th smallest
\* startTime, and only startTime and duration are rewritten.
C23_KeepsEndIdConfidence ==
  (/\ ecCalls = 1
   /\ \A i \in 1..Len(returned) : ~IsNonPositive(Recomputed(i)))
  => /\ AscendingByInputStart
     /\ \A i \in 1..Len(returned) : KeepsCandidate(i)

\* C23 (amended): the same when no recomputed duration is non-positive or
\* non-finite, or when clampNonPositive is not set; and the example of the
\* claim gives [{start:0,end:4,duration:4},{start:4,end:10,duration:6}].
C23_KeepsEndIdConfidenceUnclamped ==
  /\ (/\ ecCalls = 1
      /\ \/ ~ClampNonPositive(opts)
         \/ \A i \in 1..Len(returned) :
              IsFinite(Recomputed(i)) /\ ~IsNonPositive(Recomputed(i)))
     => /\ AscendingByInputStart
        /\ \A i \in 1..Len(returned) : KeepsCandidate(i)
  /\ ExampleResult.ret = <<2, 1>>
  /\ ExampleResult.heap[2] = [Cycle(2, Fin(0), Fin(4)) EXCEPT !.duration = Fin(4)]
  /\ ExampleResult.heap[1] =
       [Cycle(1, Fin(5), Fin(10)) EXCEPT !.startTime = Fin(4), !.duration = Fin(6)]

\* a call with clampNonPositive reordered two candidates, rewrote the start of
\* the second and clamped nothing
C23_Witness ==
  /\ ecCalls = 1 /\ ClampNonPositive(opts)
  /\ returned = <<2, 1>>
  /\ \A i \in 1..2 : IsFinite(Recomputed(i)) /\ IsPositive(Recomputed(i))
  /\ Out(2).startTime # In(returned[2]).startTime
  /\ Out(2).duration # In(returned[2]).duration

\* cycle i of the returned list was clamped by the last call
Clamped(i) ==
  /\ Out(i).endTime = Add(Out(i).startTime, Fin(Epsilon))
  /\ Out(i).duration = Fin(Epsilon)

\* the recomputed duration of cycle i is <= 0 or not finite
MustClamp(i) == ~IsFinite(Recomputed(i)) \/ IsNonPositive(Recomputed(i))

\* the example of the claim: the single cycle {start:10,end:10} with
\* clampNonPositive (times in seconds)
SingleExample ==
  EnforceContinuity(<<Cycle(1, Fin(10000), Fin(10000))>>,
                    [defined |-> TRUE, items |-> <<1>>],
                    [defined |-> TRUE, sessionStart |-> Undef, clampNonPositive |-> TRUE])

C30_ContiguousUnclamped ==
  (ecCalls >= 1 /\ ~ClampNonPositive(opts)) =>
    /\ \A i \in 2..Len(returned) : NumEq(Out(i).startTime, Out(i - 1).endTime)
    /\ \A i \in 1..Len(returned) :
         NumEq(Out(i).duration, Sub(Out(i).endTime, Out(i).startTime))

\* C30 (amended): the same for every input list whose start and end times are
\* finite numbers.
C30_ContiguousUnclampedFinite ==
  (ecCalls >= 1 /\ ~ClampNonPositive(opts)
     /\ \A r \in DOMAIN heapAtCall : IsFinite(In(r).startTime) /\ IsFinite(In(r).endTime))
  => /\ \A i \in 2..Len(returned) : NumEq(Out(i).startTime, Out(i - 1).endTime)
     /\ \A i \in 1..Len(returned) :
          /\ IsFinite(Out(i).duration)
          /\ NumEq(Out(i).duration, Sub(Out(i).endTime, Out(i).startTime))

\* without clampNonPositive a stitched cycle came back with a negative duration
C30_Witness ==
  /\ ecCalls = 1 /\ ~ClampNonPositive(opts) /\ Len(returned) = 2
  /\ Out(2).startTime = Out(1).endTime
  /\ Out(2).startTime # In(returned[2]).startTime
  /\ IsFinite(Out(2).duration) /\ IsNegative(Out(2).duration)

\* ---- claims about the frame of BoundaryDetector's operations (Spec) ---------
\* C25: reset() puts the detector in LOW with lastBoundarySec = null and leaves
\* high, low and minDurationSec exactly as they were.
C25_ResetFrame ==
  [][(detectorRef # <<>> /\ nAccepted' = 0 /\ clock' = clock /\ CallReset) =>
       /\ ~detectorRef'[1].stateHigh
       /\ detectorRef'[1].lastBoundarySec = Null
       /\ detectorRef'[1].high = detectorRef[1].high
       /\ detectorRef'[1].low = detectorRef[1].low
       /\ detectorRef'[1].minDurationSec = detectorRef[1].minDurationSec
    ]_vars

\* a detector with a positive minimum duration that had accepted a boundary
\* has just been reset
C25_Witness ==
  /\ detectorRef # <<>>
  /\ nAccepted = 0 /\ ~everHigh /\ lastBoundarySecRef # Null
  /\ emitted = <<>> /\ ~ignoredThresholds /\ ~clampedMinDuration
  /\ ~detectorRef[1].stateHigh /\ detectorRef[1].lastBoundarySec = Null
  /\ IsPositive(detectorRef[1].minDurationSec)

\* C26: setMinDuration(s) stores max(0, s), i.e. 0 for a negative s and s
\* otherwise, and changes neither the thresholds nor stateHigh nor
\* lastBoundarySec; it emits nothing.
C26_SetMinDuration ==
  [][/\ (detectorRef # <<>> /\ clampedMinDuration') =>
          detectorRef'[1] = [detectorRef[1] EXCEPT !.minDurationSec = Fin(0)]
     /\ (detectorRef # <<>> /\ ~ignoredThresholds' /\ clock' = clock
           /\ nAccepted' = nAccepted) =>
          \A sec \in MinDurs :
            CallSetMinDuration(sec) =>
              /\ detectorRef'[1] =
                   [detectorRef[1] EXCEPT
                      !.minDurationSec = IF IsNegative(sec) THEN Fin(0) ELSE sec]
              /\ emitted' = <<>>
              /\ cycles' = cycles /\ lastBoundarySecRef' = lastBoundarySecRef
    ]_vars

\* setMinDuration was just called with a negative argument on a detector that
\* is in HIGH and holds a boundary: its minimum duration is 0
C26_Witness ==
  /\ detectorRef # <<>>
  /\ clampedMinDuration
  /\ detectorRef[1].minDurationSec = Fin(0)
  /\ detectorRef[1].stateHigh
  /\ detectorRef[1].lastBoundarySec # Null

\* the metric is in the dead band of detector d: below high in LOW, above low
\* in HIGH
InDeadBand(d, metric) ==
  \/ ~d.stateHigh /\ IsNegative(Sub(metric, d.high))
  \/ d.stateHigh /\ IsPositive(Sub(metric, d.low))

\* C27: a step whose metric is in the dead band (LOW with metric < high, HIGH
\* with metric > low) leaves stateHigh, lastBoundarySec and the configuration
\* unchanged and emits nothing.
C27_DeadBandStepFrame ==
  [][\A metric \in Levels : LET tSec == clock' IN
       (detectorRef # <<>> /\ InDeadBand(detectorRef[1], metric)
          /\ CallStep(metric, tSec)) =>
         /\ detectorRef' = detectorRef
         /\ emitted' = <<>>
         /\ cycles' = cycles /\ lastBoundarySecRef' = lastBoundarySecRef
    ]_vars

\* the detector is in HIGH after a rejected rising edge and has since been fed
\* metrics strictly between low and high, none <= low: it is still in HIGH
C27_Witness ==
  /\ detectorRef # <<>>
  /\ detectorRef[1].stateHigh
  /\ rejected /\ sawMid /\ ~sawLow
  /\ emitted = <<>>

\* ---- claims about the frame of the live capture's handlers (SpecLive) -------
\* C28: handlePause only stops samples from being fed: after it the component
\* is not running and the callback of its render feeds no sample until the
\* capture is started again, and it leaves the detector (stateHigh,
\* lastBoundarySec, thresholds, minDurationSec), the assembler's previous
\* boundary, the session origin and the cycles unchanged.
C28_PauseFrame ==
  [][/\ (~running' /\ HandlePause) =>
          /\ detectorRef' = detectorRef
          /\ lastBoundarySecRef' = lastBoundarySecRef
          /\ cycles' = cycles
          /\ sessionStartRef' = sessionStartRef
     /\ ~running => \A metric \in LiveMetrics : ~OnResults(metric, nowMs')
    ]_vars

\* the capture was paused with the detector in HIGH after a rejected rising
\* edge, one cycle assembled and the previous boundary kept
C28_Witness ==
  /\ ~running /\ sessionStartRef # Null
  /\ detectorRef # <<>>
  /\ detectorRef[1].stateHigh /\ detectorRef[1].lastBoundarySec # Null
  /\ rejected
  /\ Len(cycles) = 1 /\ lastBoundarySecRef = detectorRef[1].lastBoundarySec
  /\ emitted = <<>>

\* ---- claims about phaseMetric (SpecMetric) ---------------------------------
\* C29: phaseMetric returns 0 whenever landmark 0 (wrist) or landmark 8 (index
\* fingertip) is absent from the array, and otherwise a non-negative number
\* that is 0 only when the two landmarks have the same x and the same y.
C29_PhaseMetric ==
  metricOut # Undef =>
    IF 0 \notin DOMAIN handLandmarks \/ 8 \notin DOMAIN handLandmarks
    THEN metricOut = Fin(0)
    ELSE /\ IsFinite(metricOut) /\ metricOut.val >= 0
         /\ metricOut = Fin(0) =>
              /\ handLandmarks[0].x = handLandmarks[8].x
              /\ handLandmarks[0].y = handLandmarks[8].y

\* phaseMetric returned a positive value for a fingertip straight above or
\* below the wrist
C29_Witness ==
  /\ metricOut # Undef
  /\ DOMAIN handLandmarks = {0, 8}
  /\ handLandmarks[0].x = handLandmarks[8].x
  /\ handLandmarks[0].y # handLandmarks[8].y
  /\ IsPositive(metricOut)

\* ---- claims about samples out of time order (SpecAnyOrder) -----------------
\* C31: a step of a detector whose minDurationSec is >= 0 never lowers
\* lastBoundarySec, whatever the order of the timestamps: a rising edge whose
\* timestamp is before the last accepted boundary is rejected (nothing is
\* emitted, lastBoundarySec is kept), and a cycle the step appends has a
\* duration >= 0.
C31_NoBackwardBoundary ==
  [][\A metric \in Levels : LET tSec == clock' IN
       (/\ detectorRef # <<>>
        /\ ~IsNegative(detectorRef[1].minDurationSec)
        /\ CallStepAnyOrder(metric, tSec)) =>
         LET before == detectorRef[1].lastBoundarySec
             after == detectorRef'[1].lastBoundarySec
         IN /\ before # Null => NumGeq(after, before)
            /\ (before # Null /\ IsNegative(Sub(tSec, before))) =>
                 /\ emitted' = <<>> /\ after = before
                 /\ cycles' = cycles /\ lastBoundarySecRef' = lastBoundarySecRef
            /\ \A k \in 1..Len(cycles') :
                 k > Len(cycles) => ~IsNegative(cycles'[k].duration)
    ]_vars

\* a detector with minDurationSec = 0 has just rejected a rising edge whose
\* timestamp is before its last accepted boundary
C31_Witness ==
  /\ detectorRef # <<>>
  /\ detectorRef[1].minDurationSec = Fin(0)
  /\ detectorRef[1].stateHigh
  /\ rejected /\ rejectedAt = clock /\ emitted = <<>>
  /\ detectorRef[1].lastBoundarySec # Null
  /\ IsNegative(Sub(clock, detectorRef[1].lastBoundarySec))

\* ---- claims about the sessions of the live capture (SpecLive) --------------
\* C32: the assembler's previous boundary equals the detector's
\* lastBoundarySec: both are null together, and otherwise both hold the last
\* accepted boundary.
C32_PrevIsLastBoundary ==
  IF detectorRef = <<>>
  THEN lastBoundarySecRef = Null
  ELSE /\ lastBoundarySecRef = detectorRef[1].lastBoundarySec
       /\ lastBoundarySecRef = lastAccepted

\* a running capture has rejected a rising edge after its last accepted
\* boundary, which the assembler and the detector both still hold
C32_Witness ==
  /\ running /\ detectorRef # <<>>
  /\ rejected /\ rejectedAt = clock
  /\ lastBoundarySecRef # Null
  /\ lastBoundarySecRef = detectorRef[1].lastBoundarySec
  /\ IsNegative(Sub(lastBoundarySecRef, clock))

\* C33: no live cycle spans two sessions: handleStart (when not running) and
\* handleReset empty the cycles list and clear the session origin, the
\* assembler's previous boundary and the detector state together; a cycle is
\* only ever appended, from the boundary accepted before in the same session
\* to the boundary being accepted, and the cycles already listed are kept; so
\* the list is empty as long as the session has accepted at most one boundary.
C33_NoCycleAcrossSessions ==
  /\ [](nAccepted <= 1 => cycles = <<>>)
  /\ [][/\ ((~running /\ HandleStart) \/ (~running' /\ nAccepted' = 0 /\ HandleReset)) =>
            /\ cycles' = <<>> /\ sessionStartRef' = Null /\ lastBoundarySecRef' = Null
            /\ detectorRef # <<>> =>
                 (~detectorRef'[1].stateHigh /\ detectorRef'[1].lastBoundarySec = Null)
        /\ (cycles' # cycles /\ cycles' # <<>>) =>
            /\ lastAccepted # Null /\ emitted' # <<>>
            /\ cycles' = Append(cycles, cycles'[Len(cycles')])
            /\ cycles'[Len(cycles')].startTime = lastAccepted
            /\ cycles'[Len(cycles')].endTime = emitted'[1]
       ]_vars

\* a session whose origin is after the first frame time has accepted its
\* first boundary at its first sample: it holds that boundary and no cycle
C33_Witness ==
  /\ running /\ sessionStartRef # Null
  /\ IsPositive(sessionStartRef)
  /\ nAccepted = 1 /\ lastAccepted = Fin(0) /\ emitted = <<Fin(0)>>
  /\ cycles = <<>>

\* C35: handleStart while the capture is running changes nothing: the cycles,
\* the session origin, the assembler's previous boundary, the detector and
\* running are as before.
C35_StartWhileRunning ==
  [][(running /\ HandleStart) =>
       /\ running'
       /\ cycles' = cycles
       /\ sessionStartRef' = sessionStartRef
       /\ lastBoundarySecRef' = lastBoundarySecRef
       /\ detectorRef' = detectorRef
    ]_vars

\* handleStart has just returned at its guard in a session that holds a cycle
\* and whose detector is in HIGH
C35_Witness ==
  /\ startIgnored /\ running
  /\ cycles # <<>> /\ sessionStartRef # Null
  /\ detectorRef # <<>> /\ detectorRef[1].stateHigh

\* C34 (as claimed): the detector is advanced only while running is true:
\* while the capture is not running no frame result, the one in flight when
\* the button was pressed included, sets the session origin, steps the
\* detector or appends a cycle.
C34_AdvancedOnlyWhileRunning ==
  [][(~running /\ ~running') =>
       /\ sessionStartRef = Null => sessionStartRef' = Null
       /\ emitted' = <<>>
       /\ Len(cycles') <= Len(cycles)
       /\ \A metric \in LiveMetrics : ~FeedFrame(metric, nowMs')
    ]_vars

\* ---- claims about the threshold sliders (SpecSliders) -----------------------
\* C36: after any sequence of slider changes the detector's thresholds are the
\* shown (high, low) when that pair has low < high, and otherwise the last
\* shown pair that had; the detector never has low >= high and its
\* construction does not throw.
C36_ThresholdsFollowSliders ==
  /\ ~ctorThrew
  /\ detectorRef # <<>> =>
       LET d == detectorRef[1]
           shown == [high |-> highState, low |-> lowState]
       IN /\ [high |-> d.high, low |-> d.low] =
               (IF IsNegative(Sub(lowState, highState)) THEN shown ELSE lastValid)
          /\ IsNegative(Sub(d.low, d.high))

\* the sliders show a pair with low >= high and the detector keeps the last
\* pair shown with low < high, which is not the pair it was constructed with
C36_Witness ==
  /\ detectorRef # <<>>
  /\ ignoredThresholds
  /\ NumGeq(lowState, highState)
  /\ detectorRef[1].high = lastValid.high /\ detectorRef[1].low = lastValid.low
  /\ lastValid # [high |-> DefaultHigh, low |-> DefaultLow]

C38_TimerStopped ==
  /\ request = "none" => (~runTimer /\ orphanTimers = 0 /\ analysisProgress = 0)
  /\ orphanTimers + (IF runTimer THEN 1 ELSE 0) <= 1

====
